---- MODULE Spec2Model ----
(***************************************************************************)
(* QR report-sharing tokens of hellocare-server: issuance                  *)
(* (POST /v1/reports/qr/generate), validation (POST /v1/reports/qr/validate)*)
(* and resolution (GET /v1/reports/qr/:qrToken), over the qrTokens, reports*)
(* and users collections.                                                  *)
(*                                                                         *)
(* JS strings are sequences of one-character strings, buffers are          *)
(* sequences of bytes (0..255), instants are milliseconds.                 *)
(***************************************************************************)
EXTENDS Integers, Sequences, FiniteSets, TLC

(***************************************************************************)
(* Bounds of the model.                                                    *)
(***************************************************************************)
MaxIssue == 2          \* tokens minted in one behaviour
MaxBook == 2         \* appointment bookings started in one behaviour
MaxRestart == 1        \* restarts of the process in one behaviour

(***************************************************************************)
(* Program constants.                                                      *)
(***************************************************************************)
IV_LENGTH == 16
AUTH_TAG_LENGTH == 16
DefaultExpiresIn == 3600
MinExpiresIn == 60
MaxExpiresIn == 86400
DownloadUrlTtl == 3600

Undefined == "undefined"   \* a field that is absent from a JS object
Null == "null"
NaN == -1                  \* the time value of an Invalid Date

(***************************************************************************)
(* Hexadecimal text.  Buffer#toString('hex') writes lower case;            *)
(* Buffer.from(s, 'hex') reads either case and stops at the first pair     *)
(* that is not two hex digits.                                             *)
(***************************************************************************)
HexLower == <<"0","1","2","3","4","5","6","7","8","9","a","b","c","d","e","f">>
HexUpper == <<"0","1","2","3","4","5","6","7","8","9","A","B","C","D","E","F">>

HexVal(c) ==
  IF \E i \in 1..16 : HexLower[i] = c
    THEN (CHOOSE i \in 1..16 : HexLower[i] = c) - 1
    ELSE IF \E i \in 1..16 : HexUpper[i] = c
      THEN (CHOOSE i \in 1..16 : HexUpper[i] = c) - 1
      ELSE -1

ToHex(buf) ==
  [k \in 1..(2 * Len(buf)) |->
     IF k % 2 = 1 THEN HexLower[(buf[(k + 1) \div 2] \div 16) + 1]
                  ELSE HexLower[(buf[k \div 2] % 16) + 1]]

HexDecode(s) ==
  LET n == Len(s) \div 2
      bad == {i \in 1..n : HexVal(s[2*i - 1]) < 0 \/ HexVal(s[2*i]) < 0}
      m == IF bad = {} THEN n
           ELSE (CHOOSE i \in bad : \A j \in bad : i <= j) - 1
  IN  [i \in 1..m |-> 16 * HexVal(s[2*i - 1]) + HexVal(s[2*i])]

Split(s) ==
  LET colons == {i \in 1..Len(s) : s[i] = ":"}
      \* position of the k-th colon; 0 and Len(s)+1 bracket the string
      At(k) == IF k = 0 THEN 0
               ELSE IF k > Cardinality(colons) THEN Len(s) + 1
               ELSE CHOOSE i \in colons : Cardinality({j \in colons : j < i}) = k - 1
  IN  [k \in 1..(Cardinality(colons) + 1) |-> SubSeq(s, At(k - 1) + 1, At(k) - 1)]

(***************************************************************************)
(* Date#toISOString and new Date(isoString): an instant is written as a    *)
(* fixed-width text that Date parses back; any other text is Invalid Date. *)
(***************************************************************************)
IsoWidth == 9
Digits == <<"0","1","2","3","4","5","6","7","8","9">>

Pow10(k) == LET F[i \in 0..k] == IF i = 0 THEN 1 ELSE 10 * F[i-1] IN F[k]

ToISOString(ms) ==
  [k \in 1..IsoWidth |-> Digits[((ms \div Pow10(IsoWidth - k)) % 10) + 1]]

DateParse(s) ==
  IF s \in Seq({Digits[i] : i \in 1..10}) /\ Len(s) = IsoWidth
    THEN LET F[i \in 0..IsoWidth] ==
               IF i = 0 THEN 0
               ELSE 10 * F[i-1] + (CHOOSE d \in 0..9 : Digits[d+1] = s[i])
         IN  F[IsoWidth]
    ELSE NaN

(***************************************************************************)
(* JSON.stringify / JSON.parse of the token payload                        *)
(* {reportIds, userId, expiresAt, createdAt}, as the UTF-8 bytes that are  *)
(* encrypted: the array length, one byte per identifier, then the two      *)
(* ISO texts.  Bytes that are not such a text make JSON.parse throw.       *)
(***************************************************************************)
Names == <<"r1", "r2", "r3", "p1", "p2", "d1", "u1">>

NameCode(x) == CHOOSE i \in 1..Len(Names) : Names[i] = x

CharBytes(s) == [k \in 1..Len(s) |-> 48 + HexVal(s[k])]

BytesChars(b) ==
  [k \in 1..Len(b) |-> IF b[k] \in 48..57 THEN Digits[b[k] - 47] ELSE "?"]

JSONStringify(tokenData) ==
  <<Len(tokenData.reportIds)>>
    \o [k \in 1..Len(tokenData.reportIds) |-> NameCode(tokenData.reportIds[k])]
    \o <<NameCode(tokenData.userId)>>
    \o CharBytes(tokenData.expiresAt)
    \o CharBytes(tokenData.createdAt)

JSONParse(text) ==
  IF Len(text) = 0 \/ Len(text) # text[1] + 2 + 2 * IsoWidth
       \/ \E k \in 2..(text[1] + 2) : text[k] \notin 1..Len(Names)
    THEN [ok |-> FALSE]
    ELSE LET n == text[1]
         IN  [ok |-> TRUE,
              value |-> [reportIds |-> [k \in 1..n |-> Names[text[k + 1]]],
                         userId |-> Names[text[n + 2]],
                         expiresAt |-> BytesChars(SubSeq(text, n + 3, n + 2 + IsoWidth)),
                         createdAt |-> BytesChars(SubSeq(text, n + 3 + IsoWidth, n + 2 + 2 * IsoWidth))]]

(***************************************************************************)
(* AES-256-GCM.  The cipher text is the plain text combined byte by byte   *)
(* with a key stream fixed by (key, iv); the tag is a MAC of (key, iv,     *)
(* cipher text) in which any change of one of the three changes the first  *)
(* four bytes.  A decipher that was not given authTagLength accepts a tag  *)
(* of 4, 8 or 12..16 bytes and compares that many bytes.                   *)
(***************************************************************************)
WeightedSum(buf, off) ==
  LET F[i \in 0..Len(buf)] ==
        IF i = 0 THEN 0 ELSE F[i-1] + (off + i) * (buf[i] + 1)
  IN  F[Len(buf)]

KeyStream(key, iv, i) == (7 * key + WeightedSum(iv, 0) + 3 * i) % 256

GHash(key, iv, ct) ==
  1000000 * key + WeightedSum(iv, 0) + WeightedSum(ct, IV_LENGTH) + Len(ct)

AuthTag(key, iv, ct) ==
  LET h == GHash(key, iv, ct)
      b == <<(h \div 16777216) % 256, (h \div 65536) % 256, (h \div 256) % 256, h % 256>>
  IN  [k \in 1..16 |-> b[((k - 1) % 4) + 1]]

ValidGCMTagLengths == {4, 8, 12, 13, 14, 15, 16}

TagMatches(authTag, computed) ==
  /\ Len(authTag) <= Len(computed)
  /\ \A k \in 1..Len(authTag) : authTag[k] = computed[k]

\* crypto.randomBytes(IV_LENGTH) of the n-th encryption
\* the same IV for every token
RandomIv_fixed(n) == [k \in 1..IV_LENGTH |-> 0]

RandomIv(n) == [k \in 1..IV_LENGTH |-> IF k = 1 THEN n ELSE 0]

encrypt(text, key, iv) ==
  LET encrypted == [k \in 1..Len(text) |-> (text[k] + KeyStream(key, iv, k)) % 256]
      authTag == AuthTag(key, iv, encrypted)
  IN  ToHex(iv) \o <<":">> \o ToHex(authTag) \o <<":">> \o ToHex(encrypted)

\* [ok |-> FALSE] stands for every exception decrypt can throw
decrypt_partsSwapped(encryptedText, key) ==
  LET parts == Split(encryptedText)
  IN  IF Len(parts) # 3 THEN [ok |-> FALSE]
      ELSE LET iv == HexDecode(parts[2])
               authTag == HexDecode(parts[1])
               encrypted == parts[3]
               ct == HexDecode(encrypted)
           IN  IF Len(iv) = 0 THEN [ok |-> FALSE]
               ELSE IF Len(authTag) \notin ValidGCMTagLengths THEN [ok |-> FALSE]
               ELSE IF Len(encrypted) % 2 # 0 THEN [ok |-> FALSE]
               ELSE IF ~TagMatches(authTag, AuthTag(key, iv, ct)) THEN [ok |-> FALSE]
               ELSE [ok |-> TRUE,
                     text |-> [k \in 1..Len(ct) |->
                                 (ct[k] + 256 - KeyStream(key, iv, k)) % 256]]

decrypt(encryptedText, key) ==
  LET parts == Split(encryptedText)
  IN  IF Len(parts) # 3 THEN [ok |-> FALSE]
      ELSE LET iv == HexDecode(parts[1])
               authTag == HexDecode(parts[2])
               encrypted == parts[3]
               ct == HexDecode(encrypted)
           IN  IF Len(iv) = 0 THEN [ok |-> FALSE]                       \* createDecipheriv
               ELSE IF Len(authTag) \notin ValidGCMTagLengths THEN [ok |-> FALSE] \* setAuthTag
               ELSE IF Len(encrypted) % 2 # 0 THEN [ok |-> FALSE]       \* update(.., 'hex')
               ELSE IF ~TagMatches(authTag, AuthTag(key, iv, ct)) THEN [ok |-> FALSE] \* final
               ELSE [ok |-> TRUE,
                     text |-> [k \in 1..Len(ct) |->
                                 (ct[k] + 256 - KeyStream(key, iv, k)) % 256]]

(***************************************************************************)
(* State.                                                                  *)
(***************************************************************************)
VARIABLES
  now,            \* Date.now()
  QR_SECRET_KEY,  \* process.env.QR_SECRET_KEY: <<>> when unset, <<k>> when set
  boots,          \* how many times the process has started
  SECRET_KEY,     \* the key of this process
  GEMINI_API_KEY, \* TRUE iff the summary service is configured
  users,          \* users collection: uid -> document or NoDoc
  reports,        \* reports collection: report id -> document or NoDoc
  bucket,         \* file keys present in the storage bucket
  faults,         \* document reads that throw: "qrTokens", or the id of a report
  appointments,   \* appointments collection: one document per booked appointment
  booking,        \* POST /v1/appointments handlers between the slot query and set()
  qrTokens,       \* qrTokens collection: wire token -> document
  issued,         \* history: one entry per generateQRToken call that returned
  pending,        \* POST /qr/generate handlers awaiting the summary: indices of issued
  resp            \* the response or return value on its way to the caller

vars == <<now, QR_SECRET_KEY, boots, SECRET_KEY, GEMINI_API_KEY, users, reports, bucket,
          faults, appointments, booking, qrTokens, issued, pending, resp>>
\* what no step of the reports routes and of the QR service writes
env == <<QR_SECRET_KEY, GEMINI_API_KEY, users, bucket, faults, appointments, booking>>
config == <<env, boots, SECRET_KEY>>

NoDoc == [exists |-> FALSE]          \* a document snapshot with exists = false
NoUrl == [kind |-> "none"]
NoResp == [op |-> "none"]
NoBody == [type |-> "none"]             \* a call that no request made

ReportIds == {"r1", "r2", "r3"}
Uids == {"p1", "p2", "d1", "u1"}
\* what a request carries in its Authorization header
Credentials == {"none", "bad"} \cup Uids

NoReportsSummary == "No medical reports found."
FallbackSummary == "Unable to generate AI summary at this time. Please try again later."
ModelSummary == "summary text"

StartTime == 1000

\* crypto.randomBytes(32) of the n-th start of the process
RandomKey(n) == n

\* the key used when none is configured is a constant
generateSecretKey_fixedFallback(qrSecretKey, random) ==
  IF qrSecretKey # <<>> THEN qrSecretKey[1] ELSE RandomKey(1)

\* the key of a process: the configured one (or its hash), else a random one
generateSecretKey(qrSecretKey, random) ==
  IF qrSecretKey # <<>> THEN qrSecretKey[1] ELSE random

InitEnv(apiKey, qrSecretKey) ==
  /\ now = StartTime
  /\ QR_SECRET_KEY = qrSecretKey
  /\ boots = 1
  /\ SECRET_KEY = generateSecretKey(qrSecretKey, RandomKey(1))
  /\ GEMINI_API_KEY = apiKey
  /\ users = [u \in Uids |->
                CASE u \in {"p1", "p2"} -> [exists |-> TRUE, role |-> "patient"]
                  [] u = "d1" -> [exists |-> TRUE, role |-> "doctor"]
                  [] OTHER -> NoDoc]
  /\ reports = [r \in ReportIds |->
                  [exists |-> TRUE,
                   userId |-> IF r = "r3" THEN "p2" ELSE "p1",
                   fileKey |-> r,
                   storageUrl |-> [kind |-> "static", fileKey |-> r]]]
  /\ bucket = ReportIds
  /\ faults = {}
  /\ appointments = <<>>
  /\ booking = {}
  /\ qrTokens = <<>>
  /\ issued = <<>>
  /\ pending = {}
  /\ resp = NoResp

\* no QR_SECRET_KEY in the environment
InitWith(apiKey) == InitEnv(apiKey, <<>>)

Init == \E apiKey \in BOOLEAN : InitWith(apiKey)

(***************************************************************************)
(* middleware/auth.js                                                      *)
(***************************************************************************)
Unauthorized(message) ==
  [status |-> 401, code |-> "UNAUTHORIZED", message |-> message]

\* TRUE iff next() is called, with req.user.uid = cred
Authenticated(cred) == cred \in Uids

authenticateToken(cred) ==
  IF cred = "none"
    THEN Unauthorized("Authentication required. Provide a valid Bearer token.")
    ELSE Unauthorized("Invalid or expired token.")

(***************************************************************************)
(* services/qr.js                                                          *)
(***************************************************************************)
Get(coll, id) == IF id \in DOMAIN coll THEN coll[id] ELSE NoDoc

\* the record generateQRToken builds; createdAt of the stored document is
\* read from the clock skew ms after createdAt of the payload
TokenData(reportIds, expiresIn, userId) ==
  [reportIds |-> reportIds, userId |-> userId,
   expiresAt |-> ToISOString(now + expiresIn * 1000),
   createdAt |-> ToISOString(now)]

EncryptedToken(reportIds, expiresIn, userId) ==
  encrypt(JSONStringify(TokenData(reportIds, expiresIn, userId)),
          SECRET_KEY, RandomIv(Len(issued) + 1))

\* the record given an expiresAt computed from a second reading of the clock
TokenDoc_expiresAtReadAgain(reportIds, expiresIn, userId, skew) ==
  [exists |-> TRUE,
   qrToken |-> EncryptedToken(reportIds, expiresIn, userId),
   reportIds |-> reportIds, userId |-> userId,
   expiresAt |-> ToISOString(now + 1 + expiresIn * 1000),
   createdAt |-> ToISOString(now + skew),
   aiSummary |-> Undefined, summaryGeneratedAt |-> <<>>]

TokenDoc(reportIds, expiresIn, userId, skew) ==
  [exists |-> TRUE,
   qrToken |-> EncryptedToken(reportIds, expiresIn, userId),
   reportIds |-> reportIds, userId |-> userId,
   expiresAt |-> ToISOString(now + expiresIn * 1000),
   createdAt |-> ToISOString(now + skew),
   aiSummary |-> Undefined, summaryGeneratedAt |-> <<>>]

\* the token returned although the record was not written
Issue_noWrite(reportIds, expiresIn, userId, skew, body) ==
  LET tokenDoc == TokenDoc(reportIds, expiresIn, userId, skew)
  IN  /\ Len(issued) < MaxIssue
      /\ qrTokens' = qrTokens
      /\ issued' = Append(issued,
                     [qrToken |-> tokenDoc.qrToken, reportIds |-> reportIds,
                      userId |-> userId, expiresAt |-> tokenDoc.expiresAt,
                      issuedAt |-> now, expiresAtMs |-> now + expiresIn * 1000,
                      key |-> SECRET_KEY, boot |-> boots, body |-> body,
                      written |-> Get(qrTokens', tokenDoc.qrToken) = tokenDoc,
                      owned |-> TRUE, attached |-> Undefined])
      /\ now' = now + skew

\* the writes of generateQRToken: the record, and the clock it read; body is
\* the request body the call was made for (history only)
Issue(reportIds, expiresIn, userId, skew, body) ==
  LET tokenDoc == TokenDoc(reportIds, expiresIn, userId, skew)
  IN  /\ Len(issued) < MaxIssue
      /\ qrTokens' = [t \in DOMAIN qrTokens \cup {tokenDoc.qrToken} |->
                        IF t = tokenDoc.qrToken THEN tokenDoc ELSE qrTokens[t]]
      /\ issued' = Append(issued,
                     [qrToken |-> tokenDoc.qrToken, reportIds |-> reportIds,
                      userId |-> userId, expiresAt |-> tokenDoc.expiresAt,
                      issuedAt |-> now, expiresAtMs |-> now + expiresIn * 1000,
                      key |-> SECRET_KEY, boot |-> boots, body |-> body,
                      written |-> Get(qrTokens', tokenDoc.qrToken) = tokenDoc,
                      owned |-> \A i \in 1..Len(reportIds) :
                                  /\ reportIds[i] \in DOMAIN reports
                                  /\ reports[reportIds[i]].exists
                                  /\ reports[reportIds[i]].userId = userId,
                      attached |-> Undefined])
      /\ now' = now + skew

GenerateFailedError == "Failed to generate QR token"

\* a call of generateQRToken from outside the route; write tells whether
\* set() of the record succeeds
generateQRToken(reportIds, expiresIn, userId, skew, write) ==
  /\ IF write = "ok"
       THEN /\ Issue(reportIds, expiresIn, userId, skew, NoBody)
            /\ resp' = [op |-> "generateQRToken", tok |-> Len(issued) + 1,
                        res |-> [qrToken |-> EncryptedToken(reportIds, expiresIn, userId),
                                 expiresAt |-> ToISOString(now + expiresIn * 1000)]]
       ELSE /\ resp' = [op |-> "generateQRToken", tok |-> 0,
                        res |-> [error |-> GenerateFailedError]]
            /\ UNCHANGED <<now, qrTokens, issued>>
  /\ UNCHANGED <<config, reports, pending>>

Expired_flipped(expiresAt, t) == DateParse(expiresAt) # NaN /\ DateParse(expiresAt) > t

\* expiresAt < new Date(); a comparison with Invalid Date is false
Expired(expiresAt, t) == DateParse(expiresAt) # NaN /\ DateParse(expiresAt) < t

\* the token decrypted before the record is looked up
validateQRToken_decryptFirst(qrToken) ==
  IF qrToken = <<>> THEN [valid |-> FALSE]
  ELSE LET decrypted == decrypt(qrToken, SECRET_KEY)
       IN  IF ~decrypted.ok THEN [valid |-> FALSE]
           ELSE IF ~JSONParse(decrypted.text).ok THEN [valid |-> FALSE]
           ELSE LET tokenData == IF Get(qrTokens, qrToken).exists
                                   THEN qrTokens[qrToken]
                                   ELSE JSONParse(decrypted.text).value
                IN  IF Expired(tokenData.expiresAt, now) THEN [valid |-> FALSE]
                    ELSE [valid |-> TRUE, reportIds |-> tokenData.reportIds,
                          expiresAt |-> tokenData.expiresAt]

\* the expiry of the payload is not tested on the decrypt path
validateQRToken_noExpiryOnDecrypt(qrToken) ==
  IF qrToken = <<>> THEN [valid |-> FALSE]
  ELSE IF ~Get(qrTokens, qrToken).exists
    THEN LET decrypted == decrypt(qrToken, SECRET_KEY)
             parsed == JSONParse(decrypted.text)
         IN  IF ~decrypted.ok THEN [valid |-> FALSE]
             ELSE IF ~parsed.ok THEN [valid |-> FALSE]
             ELSE [valid |-> TRUE, reportIds |-> parsed.value.reportIds,
                   expiresAt |-> parsed.value.expiresAt]
    ELSE LET tokenData == qrTokens[qrToken]
         IN  IF Expired(tokenData.expiresAt, now) THEN [valid |-> FALSE]
             ELSE [valid |-> TRUE, reportIds |-> tokenData.reportIds,
                   expiresAt |-> tokenData.expiresAt]

\* a failed read of the record taken for a missing record
validateQRToken_fallsBackOnReadError(qrToken) ==
  IF qrToken = <<>> THEN [valid |-> FALSE]
  ELSE IF "qrTokens" \in faults \/ ~Get(qrTokens, qrToken).exists
    THEN LET decrypted == decrypt(qrToken, SECRET_KEY)
             parsed == JSONParse(decrypted.text)
         IN  IF ~decrypted.ok THEN [valid |-> FALSE]
             ELSE IF ~parsed.ok THEN [valid |-> FALSE]
             ELSE IF Expired(parsed.value.expiresAt, now) THEN [valid |-> FALSE]
             ELSE [valid |-> TRUE, reportIds |-> parsed.value.reportIds,
                   expiresAt |-> parsed.value.expiresAt]
    ELSE LET tokenData == qrTokens[qrToken]
         IN  IF Expired(tokenData.expiresAt, now) THEN [valid |-> FALSE]
             ELSE [valid |-> TRUE, reportIds |-> tokenData.reportIds,
                   expiresAt |-> tokenData.expiresAt]

validateQRToken(qrToken) ==
  IF qrToken = <<>> THEN [valid |-> FALSE]          \* doc('') throws
  ELSE IF "qrTokens" \in faults THEN [valid |-> FALSE]   \* get() throws
  ELSE IF ~Get(qrTokens, qrToken).exists
    THEN LET decrypted == decrypt(qrToken, SECRET_KEY)
             parsed == JSONParse(decrypted.text)
         IN  IF ~decrypted.ok THEN [valid |-> FALSE]
             ELSE IF ~parsed.ok THEN [valid |-> FALSE]
             ELSE IF Expired(parsed.value.expiresAt, now) THEN [valid |-> FALSE]
             ELSE [valid |-> TRUE, reportIds |-> parsed.value.reportIds,
                   expiresAt |-> parsed.value.expiresAt]
    ELSE LET tokenData == qrTokens[qrToken]
         IN  IF Expired(tokenData.expiresAt, now) THEN [valid |-> FALSE]
             ELSE [valid |-> TRUE, reportIds |-> tokenData.reportIds,
                   expiresAt |-> tokenData.expiresAt]

\* services/storage.js generateDownloadUrl: the signed URL, or NoUrl when it throws
generateDownloadUrl(fileKey, expiresIn) ==
  IF fileKey \in bucket
    THEN [kind |-> "signed", fileKey |-> fileKey, expiresIn |-> expiresIn]
    ELSE NoUrl

\* no static locator when no URL was signed
ReportView_noFallback(reportId) ==
  LET reportData == reports[reportId]
      downloadUrl == IF reportData.fileKey # Undefined
                       THEN generateDownloadUrl(reportData.fileKey, DownloadUrlTtl)
                       ELSE NoUrl
  IN  [reportId |-> reportId, storageUrl |-> downloadUrl]

ReportView(reportId) ==
  LET reportData == reports[reportId]
      downloadUrl == IF reportData.fileKey # Undefined
                       THEN generateDownloadUrl(reportData.fileKey, DownloadUrlTtl)
                       ELSE NoUrl
  IN  [reportId |-> reportId,
       storageUrl |-> IF downloadUrl # NoUrl THEN downloadUrl ELSE reportData.storageUrl]

\* the loop left at the first report that is missing
FetchedViews_stopsAtMissing(reportIds) ==
  LET F[i \in 0..Len(reportIds)] ==
        IF i = 0 THEN <<>>
        ELSE IF \A j \in 1..i : Get(reports, reportIds[j]).exists
          THEN Append(F[i-1], ReportView(reportIds[i]))
          ELSE F[i-1]
  IN  F[Len(reportIds)]

\* an id that occurred earlier in reportIds is skipped
FetchedViews_unique(reportIds) ==
  LET F[i \in 0..Len(reportIds)] ==
        IF i = 0 THEN <<>>
        ELSE IF /\ Get(reports, reportIds[i]).exists
                /\ \A j \in 1..(i - 1) : reportIds[j] # reportIds[i]
          THEN Append(F[i-1], ReportView(reportIds[i]))
          ELSE F[i-1]
  IN  F[Len(reportIds)]

\* the loop over reportIds: the ids fetched, and the views pushed
FetchedViews(reportIds) ==
  LET F[i \in 0..Len(reportIds)] ==
        IF i = 0 THEN <<>>
        ELSE IF Get(reports, reportIds[i]).exists
          THEN Append(F[i-1], ReportView(reportIds[i]))
          ELSE F[i-1]
  IN  F[Len(reportIds)]

TokenInvalidError == "Invalid or expired QR token"
\* the message of the error a failed get() rejects with
StoreReadError == "store read failed"

\* the first read of the loop over reportIds that throws, 0 when none does
FirstFaulted(reportIds) ==
  LET faulted == {i \in 1..Len(reportIds) : reportIds[i] \in faults}
  IN  IF faulted = {} THEN 0 ELSE CHOOSE i \in faulted : \A j \in faulted : i <= j

getReportsByQRToken_wrapsError(qrToken) ==
  LET validation == validateQRToken(qrToken)
  IN  IF ~validation.valid
        THEN [error |-> "Failed to get reports", fetched |-> <<>>]
        ELSE [error |-> Null,
              fetched |-> validation.reportIds,
              reports |-> FetchedViews(validation.reportIds),
              expiresAt |-> validation.expiresAt,
              aiSummary |-> IF Get(qrTokens, qrToken).exists
                                 /\ qrTokens[qrToken].aiSummary # Undefined
                              THEN qrTokens[qrToken].aiSummary
                              ELSE Null]

\* the summary read from a field the attach update does not write
getReportsByQRToken_noSummary(qrToken) ==
  LET validation == validateQRToken(qrToken)
  IN  IF ~validation.valid
        THEN [error |-> TokenInvalidError, fetched |-> <<>>]
        ELSE [error |-> Null,
              fetched |-> validation.reportIds,
              reports |-> FetchedViews(validation.reportIds),
              expiresAt |-> validation.expiresAt,
              aiSummary |-> Null]

\* the value returned, or [error |-> message] when it throws
\* the body of getReportsByQRToken once validateQRToken has returned validation
getReportsOf(qrToken, validation) ==
  IF ~validation.valid
    THEN [error |-> TokenInvalidError, fetched |-> <<>>]
    ELSE IF FirstFaulted(validation.reportIds) # 0
      THEN [error |-> StoreReadError,
            fetched |-> SubSeq(validation.reportIds, 1,
                               FirstFaulted(validation.reportIds))]
    ELSE [error |-> Null,
          fetched |-> validation.reportIds,
          reports |-> FetchedViews(validation.reportIds),
          expiresAt |-> validation.expiresAt,
          aiSummary |-> IF Get(qrTokens, qrToken).exists
                             /\ qrTokens[qrToken].aiSummary # Undefined
                          THEN qrTokens[qrToken].aiSummary
                          ELSE Null]

getReportsByQRToken(qrToken) == getReportsOf(qrToken, validateQRToken(qrToken))

(***************************************************************************)
(* Responses of routes/reports.js.                                         *)
(***************************************************************************)
ValidationError ==
  [status |-> 400, code |-> "VALIDATION_ERROR", message |-> "Invalid request data"]
Forbidden(message) == [status |-> 403, code |-> "FORBIDDEN", message |-> message]
NotFound(message) == [status |-> 404, code |-> "NOT_FOUND", message |-> message]
ServerError(message) == [status |-> 500, code |-> "SERVER_ERROR", message |-> message]
Ok(data) == [status |-> 200, success |-> TRUE, data |-> data]

(***************************************************************************)
(* The JSON values of a request body.  A number is whole + frac/10; a      *)
(* numeric string is a string that reads as the integer whole.             *)
(***************************************************************************)
JAbsent == [type |-> "absent"]
JString(s) == [type |-> "string", value |-> s]
JNumericString(n) == [type |-> "numericString", whole |-> n]
JNumber(whole, frac) == [type |-> "number", whole |-> whole, frac |-> frac]
JArray(items) == [type |-> "array", items |-> items]

\* an array of the strings ids
JIds(ids) == JArray([k \in 1..Len(ids) |-> JString(ids[k])])

(***************************************************************************)
(* POST /v1/reports/qr/generate, up to the await of the summary: the       *)
(* validators, the ownership loop and generateQRToken.  write tells        *)
(* whether set() of the qrTokens record succeeds.                          *)
(***************************************************************************)
\* isArray({ min: 1 })
IsArray(v, min) == v.type = "array" /\ Len(v.items) >= min

\* isInt({ min, max }): the value written as text is an integer in range
IsInt(v, min, max) ==
  /\ v.type \in {"number", "numericString"}
  /\ IF v.type = "number" THEN v.frac = 0 ELSE TRUE
  /\ v.whole >= min /\ v.whole <= max

\* the upper limit of expiresIn is not tested
ValidGenerateBody_noMax(body) ==
  /\ IsArray(body.reportIds, 1)
  /\ \A k \in 1..Len(body.reportIds.items) : body.reportIds.items[k].type = "string"
  /\ body.expiresIn = JAbsent \/ IsInt(body.expiresIn, MinExpiresIn, MaxExpiresIn * 1000)

ValidGenerateBody(body) ==
  /\ IsArray(body.reportIds, 1)
  /\ IF body.reportIds.type = "array"
       THEN \A k \in 1..Len(body.reportIds.items) : body.reportIds.items[k].type = "string"
       ELSE TRUE
  /\ body.expiresIn = JAbsent \/ IsInt(body.expiresIn, MinExpiresIn, MaxExpiresIn)

\* the owner of the report is not compared with the caller
AccessDenied_existsOnly(reportId, userId) == ~Get(reports, reportId).exists

\* !reportDoc.exists || reportDoc.data().userId !== userId
AccessDenied(reportId, userId) ==
  ~Get(reports, reportId).exists \/ reports[reportId].userId # userId

\* only the first report id is verified
FirstDenied_firstOnly(reportIds, userId) ==
  IF Len(reportIds) > 0 /\ AccessDenied(reportIds[1], userId) THEN 1 ELSE 0

\* the first report of the loop that is denied, 0 when none is
FirstDenied(reportIds, userId) ==
  LET denied == {i \in 1..Len(reportIds) : AccessDenied(reportIds[i], userId)}
  IN  IF denied = {} THEN 0 ELSE CHOOSE i \in denied : \A j \in denied : i <= j

\* lookups: the report ids the handler read; encrypted: whether it called
\* encrypt; failure: "write" when set() of the record threw
Generate(cred, body, skew, write) ==
  LET reportIds == [k \in 1..Len(body.reportIds.items) |-> body.reportIds.items[k].value]
      ttl == IF body.expiresIn = JAbsent THEN DefaultExpiresIn ELSE body.expiresIn.whole
      denied == FirstDenied(reportIds, cred)
      faulted == FirstFaulted(reportIds)
      reject(res, lookups, failure) ==
        /\ resp' = [op |-> "generate", cred |-> cred, tok |-> 0, body |-> body,
                    lookups |-> lookups, encrypted |-> failure = "write",
                    failure |-> failure, res |-> res]
        /\ UNCHANGED <<now, qrTokens, issued, pending>>
  IN  /\ IF ~Authenticated(cred) THEN reject(authenticateToken(cred), <<>>, "none")
         ELSE IF ~ValidGenerateBody(body) THEN reject(ValidationError, <<>>, "none")
         ELSE IF faulted # 0 /\ (denied = 0 \/ faulted <= denied)
           THEN reject(ServerError(StoreReadError), SubSeq(reportIds, 1, faulted), "read")
         ELSE IF denied # 0
           THEN reject(Forbidden(<<"Access denied to report", reportIds[denied]>>),
                       SubSeq(reportIds, 1, denied), "none")
         ELSE IF write # "ok"
           THEN reject(ServerError(GenerateFailedError), reportIds, "write")
         ELSE /\ Issue(reportIds, ttl, cred, skew, body)
              /\ pending' = pending \cup {Len(issued) + 1}
              /\ UNCHANGED resp
      /\ UNCHANGED <<config, reports>>

(***************************************************************************)
(* POST /v1/reports/qr/generate, from the summary to the response.         *)
(* services/ai.js generateSummaryForReports throws without an API key,     *)
(* answers a fixed text when no report exists or the model call fails.     *)
(* update() of a missing document throws; the handler swallows it.         *)
(***************************************************************************)
SummaryOutcomes == {"ok", "modelError", "updateError"}

\* the summary text, or Null when generateSummaryForReports throws
generateSummaryForReports(reportIds, outcome) ==
  IF ~GEMINI_API_KEY THEN Null
  ELSE IF FirstFaulted(reportIds) # 0 THEN FallbackSummary
  ELSE IF \A i \in 1..Len(reportIds) : ~Get(reports, reportIds[i]).exists
    THEN NoReportsSummary
  ELSE IF outcome = "modelError" THEN FallbackSummary
  ELSE ModelSummary

\* an error of the try block passed on to the error handler
GenerateSummary_propagates(i, outcome) ==
  LET qrToken == issued[i].qrToken
      summary == generateSummaryForReports(issued[i].reportIds, outcome)
      updated == /\ summary # Null
                 /\ outcome # "updateError"
                 /\ Get(qrTokens, qrToken).exists
  IN  /\ i \in pending
      /\ pending' = pending \ {i}
      /\ qrTokens' = IF updated
                       THEN [qrTokens EXCEPT ![qrToken].aiSummary = summary,
                                             ![qrToken].summaryGeneratedAt = ToISOString(now)]
                       ELSE qrTokens
      /\ issued' = [issued EXCEPT ![i].attached = IF updated THEN summary ELSE @]
      /\ resp' = [op |-> "generate", cred |-> issued[i].userId, tok |-> i,
                  body |-> issued[i].body, lookups |-> issued[i].reportIds,
                  encrypted |-> TRUE, outcome |-> outcome,
                  failure |-> IF summary = Null THEN "summary"
                              ELSE IF ~updated THEN "update" ELSE "none",
                  res |-> IF updated
                            THEN Ok([qrToken |-> qrToken, expiresAt |-> issued[i].expiresAt,
                                     aiSummary |-> summary])
                            ELSE ServerError("Error generating AI summary for QR code")]
      /\ UNCHANGED <<config, now, reports>>

\* the record written anew with set() instead of update()
GenerateSummary_rewritesRecord(i, outcome) ==
  LET qrToken == issued[i].qrToken
      summary == generateSummaryForReports(issued[i].reportIds, outcome)
      updated == /\ summary # Null
                 /\ outcome # "updateError"
                 /\ Get(qrTokens, qrToken).exists
  IN  /\ i \in pending
      /\ pending' = pending \ {i}
      /\ qrTokens' = IF updated
                       THEN [qrTokens EXCEPT ![qrToken].aiSummary = summary,
                                             ![qrToken].summaryGeneratedAt = ToISOString(now),
                                             ![qrToken].createdAt = ToISOString(now + 1)]
                       ELSE qrTokens
      /\ issued' = [issued EXCEPT ![i].attached = IF updated THEN summary ELSE @]
      /\ resp' = [op |-> "generate", cred |-> issued[i].userId, tok |-> i,
                  body |-> issued[i].body, lookups |-> issued[i].reportIds,
                  encrypted |-> TRUE, outcome |-> outcome,
                  failure |-> IF summary = Null THEN "summary"
                              ELSE IF ~updated THEN "update" ELSE "none",
                  res |-> Ok([qrToken |-> qrToken, expiresAt |-> issued[i].expiresAt,
                              aiSummary |-> summary])]
      /\ UNCHANGED <<config, now, reports>>

\* failure: "summary" when generateSummaryForReports threw, "update" when
\* update() threw (no such record, or the store failed), "none" otherwise
GenerateSummary(i, outcome) ==
  LET qrToken == issued[i].qrToken
      summary == generateSummaryForReports(issued[i].reportIds, outcome)
      updated == /\ summary # Null
                 /\ outcome # "updateError"
                 /\ Get(qrTokens, qrToken).exists
  IN  /\ i \in pending
      /\ pending' = pending \ {i}
      /\ qrTokens' = IF updated
                       THEN [qrTokens EXCEPT ![qrToken].aiSummary = summary,
                                             ![qrToken].summaryGeneratedAt = ToISOString(now)]
                       ELSE qrTokens
      /\ issued' = [issued EXCEPT ![i].attached = IF updated THEN summary ELSE @]
      /\ resp' = [op |-> "generate", cred |-> issued[i].userId, tok |-> i,
                  body |-> issued[i].body, lookups |-> issued[i].reportIds,
                  encrypted |-> TRUE, outcome |-> outcome,
                  failure |-> IF summary = Null THEN "summary"
                              ELSE IF ~updated THEN "update" ELSE "none",
                  res |-> Ok([qrToken |-> qrToken, expiresAt |-> issued[i].expiresAt,
                              aiSummary |-> summary])]
      /\ UNCHANGED <<config, now, reports>>

(***************************************************************************)
(* What a client presents: pres.str is the string, pres.tok the issued     *)
(* token it was made from (0 when none), pres.kind how, and for a token    *)
(* with one character replaced pres.at the position and pres.char the new  *)
(* character.                                                              *)
(***************************************************************************)
FlipCase(c) ==
  IF HexVal(c) < 10 THEN c
  ELSE IF c = HexLower[HexVal(c) + 1] THEN HexUpper[HexVal(c) + 1]
  ELSE HexLower[HexVal(c) + 1]

\* one replacement of each sort: the same digit in the other case, another
\* digit, a character that is no hex digit, the separator
Variants(c) ==
  IF c = ":" THEN {"0", "g"}
  ELSE {FlipCase(c), HexLower[((HexVal(c) + 1) % 16) + 1], "g", ":"} \ {c}

Segment(str, p) == Cardinality({q \in 1..p : str[q] = ":"}) + 1

AlterKind(str, p, c) ==
  IF str[p] = ":" \/ c = ":" THEN "malformed"
  ELSE CASE Segment(str, p) = 1 -> "alteredIv"
         [] Segment(str, p) = 2 -> "alteredTag"
         [] OTHER -> "alteredCiphertext"

Exact ==
  {[tok |-> i, kind |-> "issued", at |-> 0, char |-> "", str |-> issued[i].qrToken] :
     i \in 1..Len(issued)}

AlteredOf(i) ==
  LET str == issued[i].qrToken
  IN  UNION {{[tok |-> i, kind |-> AlterKind(str, p, c), at |-> p, char |-> c,
                str |-> [str EXCEPT ![p] = c]] :
                c \in Variants(str[p])} : p \in 1..Len(str)}

Altered == UNION {AlteredOf(i) : i \in 1..Len(issued)}

NeverIssued ==
  {[tok |-> 0, kind |-> "malformed", at |-> 0, char |-> "", str |-> <<"a", "b">>],
   [tok |-> 0, kind |-> "malformed", at |-> 0, char |-> "",
    str |-> <<"0", "0", ":", "0", "0">>],
   [tok |-> 0, kind |-> "neverIssued", at |-> 0, char |-> "",
    str |-> encrypt(<<1, 1, 4>>, 2, RandomIv(1))]}

(***************************************************************************)
(* Calls of validateQRToken and getReportsByQRToken from outside a route.  *)
(***************************************************************************)
CallValidate(pres) ==
  /\ resp' = [op |-> "validateQRToken", tok |-> pres.tok, kind |-> pres.kind,
              at |-> pres.at, char |-> pres.char, str |-> pres.str,
              res |-> validateQRToken(pres.str)]
  /\ UNCHANGED <<config, now, reports, qrTokens, issued, pending>>

(***************************************************************************)
(* POST /v1/reports/qr/validate                                            *)
(***************************************************************************)
\* a record found expired is deleted
Validate_deletesExpired(cred, pres) ==
  /\ resp' = [op |-> "validate", cred |-> cred, tok |-> pres.tok, kind |-> pres.kind,
              at |-> pres.at, char |-> pres.char,
              res |-> IF ~Authenticated(cred) THEN authenticateToken(cred)
                      ELSE IF pres.str = <<>> THEN ValidationError
                      ELSE Ok(validateQRToken(pres.str))]
  /\ qrTokens' = IF /\ Authenticated(cred)
                    /\ Get(qrTokens, pres.str).exists
                    /\ Expired(qrTokens[pres.str].expiresAt, now)
                   THEN [qrTokens EXCEPT ![pres.str] = NoDoc]
                   ELSE qrTokens
  /\ UNCHANGED <<config, now, reports, issued, pending>>

Validate(cred, pres) ==
  /\ resp' = [op |-> "validate", cred |-> cred, tok |-> pres.tok, kind |-> pres.kind,
              at |-> pres.at, char |-> pres.char,
              res |-> IF ~Authenticated(cred) THEN authenticateToken(cred)
                      ELSE IF pres.str = <<>> THEN ValidationError
                      ELSE Ok(validateQRToken(pres.str))]
  /\ UNCHANGED <<config, now, reports, qrTokens, issued, pending>>

(***************************************************************************)
(* GET /v1/reports/qr/:qrToken.  accepted records what validateQRToken     *)
(* answers for the presented string in this state, validated whether the   *)
(* handler called it, fetched the report ids it read.                      *)
(***************************************************************************)
\* the role compared with another spelling
IsDoctor_roleCase(uid) == Get(users, uid).exists /\ users[uid].role = "Doctor"

\* a caller without a users record let through
IsDoctor_missingRecord(uid) ==
  IF Get(users, uid).exists THEN users[uid].role = "doctor" ELSE TRUE

\* userDoc.exists && userDoc.data().role === 'doctor'
IsDoctor(uid) == Get(users, uid).exists /\ users[uid].role = "doctor"

Resolve(cred, pres) ==
  LET result == getReportsByQRToken(pres.str)
      called == Authenticated(cred) /\ IsDoctor(cred)
  IN  /\ resp' = [op |-> "resolve", cred |-> cred, tok |-> pres.tok, kind |-> pres.kind,
                  at |-> pres.at, char |-> pres.char,
                  accepted |-> validateQRToken(pres.str).valid,
                  validated |-> called,
                  fetched |-> IF called THEN result.fetched ELSE <<>>,
                  res |-> IF ~Authenticated(cred) THEN authenticateToken(cred)
                          ELSE IF ~IsDoctor(cred) THEN Forbidden("Doctor access required")
                          ELSE IF result.error = Null
                            THEN Ok([reports |-> result.reports,
                                     expiresAt |-> result.expiresAt,
                                     aiSummary |-> result.aiSummary])
                          ELSE IF result.error = TokenInvalidError
                            THEN NotFound(result.error)
                          ELSE ServerError(result.error)]
      /\ UNCHANGED <<config, now, reports, qrTokens, issued, pending>>

\* res.json(...): the response reaches the client
Deliver ==
  /\ resp # NoResp
  /\ resp' = NoResp
  /\ UNCHANGED <<config, now, reports, qrTokens, issued, pending>>

(***************************************************************************)
(* The environment: the clock, and documents removed from the stores by    *)
(* something other than this server.                                       *)
(***************************************************************************)
Tick(t) ==
  /\ t > now
  /\ now' = t
  /\ UNCHANGED <<config, reports, qrTokens, issued, pending, resp>>

DeleteReport(reportId) ==
  /\ reports[reportId].exists
  /\ reports' = [reports EXCEPT ![reportId] = NoDoc]
  /\ UNCHANGED <<config, now, qrTokens, issued, pending, resp>>

\* the process stops and starts again: the handlers in flight are lost, the
\* collections stay, SECRET_KEY is computed anew
Restart ==
  /\ boots <= MaxRestart
  /\ boots' = boots + 1
  /\ SECRET_KEY' = generateSecretKey(QR_SECRET_KEY, RandomKey(boots + 1))
  /\ pending' = {}
  /\ UNCHANGED <<env, now, reports, qrTokens, issued, resp>>

\* a document read starts to fail, and the store recovers
Fail(f) ==
  /\ faults = {}
  /\ faults' = {f}
  /\ UNCHANGED <<QR_SECRET_KEY, GEMINI_API_KEY, users, bucket, appointments, booking,
                 boots, SECRET_KEY, now, reports, qrTokens, issued, pending, resp>>

Recover ==
  /\ faults # {}
  /\ faults' = {}
  /\ UNCHANGED <<QR_SECRET_KEY, GEMINI_API_KEY, users, bucket, appointments, booking,
                 boots, SECRET_KEY, now, reports, qrTokens, issued, pending, resp>>

EvictToken(i) ==
  /\ Get(qrTokens, issued[i].qrToken).exists
  /\ qrTokens' = [qrTokens EXCEPT ![issued[i].qrToken] = NoDoc]
  /\ UNCHANGED <<config, now, reports, issued, pending, resp>>

(***************************************************************************)
(* Specifications.  No step reads resp, so each specification lets the     *)
(* response of one request be delivered before the next step: resp # NoResp*)
(* marks exactly the states in which a request has just been answered.     *)
(***************************************************************************)
AtExpiry == {DateParse(issued[i].expiresAt) : i \in 1..Len(issued)}
AfterExpiry == {DateParse(issued[i].expiresAt) + 1 : i \in 1..Len(issued)}

\* Spec: the three routes, the clock and reports deleted from the store
GenerateRequests ==
  {<<"p1", [reportIds |-> JIds(<<"r1", "r2">>), expiresIn |-> JAbsent]>>,
   <<"p1", [reportIds |-> JIds(<<"r2", "r1", "r2">>), expiresIn |-> JNumber(MinExpiresIn, 0)]>>,
   <<"p1", [reportIds |-> JIds(<<"r1", "r3">>), expiresIn |-> JAbsent]>>,
   <<"p2", [reportIds |-> JIds(<<"r1", "r3">>), expiresIn |-> JAbsent]>>,
   <<"p1", [reportIds |-> JIds(<<>>), expiresIn |-> JAbsent]>>,
   <<"p1", [reportIds |-> JIds(<<"r1">>), expiresIn |-> JNumber(MinExpiresIn - 1, 0)]>>,
   <<"none", [reportIds |-> JIds(<<"r1">>), expiresIn |-> JAbsent]>>}

GenerateStep == \E r \in GenerateRequests : Generate(r[1], r[2], 0, "ok")
SummaryStep == \E i \in 1..Len(issued) : GenerateSummary(i, "ok")
ValidateStep ==
  \E cred \in {"p1", "bad"}, pres \in Exact \cup NeverIssued : Validate(cred, pres)
ResolveStep ==
  \E cred \in {"d1", "p1", "u1", "none"}, pres \in Exact \cup NeverIssued :
    Resolve(cred, pres)
DeleteStep == \E reportId \in {"r1", "r2"} : DeleteReport(reportId)
\* the clock moves once, past the expiry of a token minted at the start with
\* the shortest lifetime and before the expiry of every other token
TickStep == Tick(StartTime + MinExpiresIn * 1000 + 1)

Next ==
  \/ resp = NoResp /\ GenerateStep
  \/ resp = NoResp /\ SummaryStep
  \/ resp = NoResp /\ ValidateStep
  \/ resp = NoResp /\ ResolveStep
  \/ resp = NoResp /\ TickStep
  \/ resp = NoResp /\ DeleteStep
  \/ Deliver

Spec == Init /\ [][Next]_vars

\* SpecService: generateQRToken and validateQRToken called directly, with
\* the clock and eviction of qrTokens records
ServiceCalls ==
  {<<<<"r1", "r2">>, DefaultExpiresIn, "p1">>,
   <<<<"r2", "r1", "r2">>, MinExpiresIn, "p1">>,
   <<<<"r3">>, MaxExpiresIn, "p2">>}

IssueCall ==
  \E c \in ServiceCalls, write \in {"ok", "fails"} :
    generateQRToken(c[1], c[2], c[3], 0, write)
ValidateCall == \E pres \in Exact : CallValidate(pres)
TickExpiry == \E t \in AtExpiry \cup AfterExpiry : Tick(t)
Evict == \E i \in 1..Len(issued) : EvictToken(i)

NextService ==
  \/ resp = NoResp /\ IssueCall
  \/ resp = NoResp /\ ValidateCall
  \/ resp = NoResp /\ TickExpiry
  \/ resp = NoResp /\ Evict
  \/ Deliver

SpecService == InitWith(TRUE) /\ [][NextService]_vars

\* SpecTamper: one kind of token, presented as issued, with one character
\* replaced, or never issued, to validateQRToken and to the resolve route
TamperCalls == {<<<<"r1", "r2">>, MinExpiresIn, "p1">>}

IssueOne == \E c \in TamperCalls : generateQRToken(c[1], c[2], c[3], 0, "ok")
TickAfter == \E t \in AfterExpiry : Tick(t)
ValidateAny == \E pres \in Exact \cup Altered \cup NeverIssued : CallValidate(pres)
ResolveAny ==
  \E cred \in {"d1", "p1"}, pres \in Exact \cup Altered \cup NeverIssued : Resolve(cred, pres)

NextTamper ==
  \/ resp = NoResp /\ IssueOne
  \/ resp = NoResp /\ TickAfter
  \/ resp = NoResp /\ ValidateAny
  \/ resp = NoResp /\ ResolveAny
  \/ Deliver

SpecTamper == InitWith(TRUE) /\ [][NextTamper]_vars

\* SpecIssue: the generate route alone, with bodies of every shape, a store
\* that may refuse the write of the record, and summaries that may fail
IssueRequests ==
  {<<"p1", [reportIds |-> JIds(<<"r1", "r2">>), expiresIn |-> JAbsent]>>,
   <<"p1", [reportIds |-> JIds(<<"r2">>), expiresIn |-> JNumericString(MinExpiresIn)]>>,
   <<"p2", [reportIds |-> JIds(<<"r3">>), expiresIn |-> JNumber(MaxExpiresIn, 0)]>>,
   <<"p1", [reportIds |-> JIds(<<"r3">>), expiresIn |-> JAbsent]>>,
   <<"p1", [reportIds |-> JIds(<<>>), expiresIn |-> JAbsent]>>,
   <<"p1", [reportIds |-> JString("r1"), expiresIn |-> JAbsent]>>,
   <<"p1", [reportIds |-> JAbsent, expiresIn |-> JNumber(MinExpiresIn, 0)]>>,
   <<"p1", [reportIds |-> JArray(<<JString("r1"), JNumber(7, 0)>>), expiresIn |-> JAbsent]>>,
   <<"p1", [reportIds |-> JIds(<<"r1">>), expiresIn |-> JNumber(MinExpiresIn - 1, 0)]>>,
   <<"p1", [reportIds |-> JIds(<<"r1">>), expiresIn |-> JNumber(MaxExpiresIn + 1, 0)]>>,
   <<"p1", [reportIds |-> JIds(<<"r1">>), expiresIn |-> JNumber(MinExpiresIn, 5)]>>,
   <<"p1", [reportIds |-> JIds(<<"r3">>), expiresIn |-> JString("soon")]>>,
   <<"bad", [reportIds |-> JIds(<<"r1">>), expiresIn |-> JAbsent]>>}

IssueRequest ==
  \E r \in IssueRequests, write \in {"ok", "fails"} : Generate(r[1], r[2], 0, write)
SummaryAny ==
  \E i \in 1..Len(issued), outcome \in SummaryOutcomes : GenerateSummary(i, outcome)
DeleteOne == DeleteReport("r2")

NextIssue ==
  \/ resp = NoResp /\ IssueRequest
  \/ resp = NoResp /\ SummaryAny
  \/ resp = NoResp /\ DeleteOne
  \/ Deliver

SpecIssue == Init /\ [][NextIssue]_vars

\* SpecRestart: tokens of the generate route through their life: summary
\* attached, validated, resolved, expired, record evicted, process restarted,
\* with and without a key configured in the environment
ConfiguredKey == 9
LifeRequests ==
  {<<"p1", [reportIds |-> JIds(<<"r1", "r2">>), expiresIn |-> JNumber(MinExpiresIn, 0)]>>}

IssueLife == \E r \in LifeRequests : Generate(r[1], r[2], 0, "ok")
SummaryLife == \E i \in 1..Len(issued) : GenerateSummary(i, "ok")
ValidateLife == \E pres \in Exact \cup NeverIssued : CallValidate(pres)
ResolveLife == \E pres \in Exact : Resolve("d1", pres)

NextRestart ==
  \/ resp = NoResp /\ IssueLife
  \/ resp = NoResp /\ SummaryLife
  \/ resp = NoResp /\ ValidateLife
  \/ resp = NoResp /\ ResolveLife
  \/ resp = NoResp /\ TickStep
  \/ resp = NoResp /\ Evict
  \/ resp = NoResp /\ Restart
  \/ Deliver

InitRestart == \E qrSecretKey \in {<<>>, <<ConfiguredKey>>} : InitEnv(TRUE, qrSecretKey)

SpecRestart == InitRestart /\ [][NextRestart]_vars

\* SpecMirror: generateQRToken called directly, the clock read a second time
\* for the record's createdAt in the same millisecond or in the next one
MirrorCalls ==
  {<<<<"r1", "r2">>, MinExpiresIn, "p1">>,
   <<<<"r3">>, DefaultExpiresIn, "p2">>}
ClockSkews == {0, 1}

IssueMirror ==
  \E c \in MirrorCalls, skew \in ClockSkews : generateQRToken(c[1], c[2], c[3], skew, "ok")

NextMirror ==
  \/ resp = NoResp /\ IssueMirror
  \/ resp = NoResp /\ ValidateCall
  \/ resp = NoResp /\ TickExpiry
  \/ resp = NoResp /\ Evict
  \/ Deliver

SpecMirror == InitWith(TRUE) /\ [][NextMirror]_vars

\* SpecFault: resolution while reads of the stores fail.  r1 has its file
\* in the bucket, the file of r2 was never uploaded, r3 was written without
\* a fileKey.
InitFault ==
  /\ now = StartTime
  /\ QR_SECRET_KEY = <<>>
  /\ boots = 1
  /\ SECRET_KEY = generateSecretKey(<<>>, RandomKey(1))
  /\ GEMINI_API_KEY = TRUE
  /\ users = [u \in Uids |->
                CASE u \in {"p1", "p2"} -> [exists |-> TRUE, role |-> "patient"]
                  [] u = "d1" -> [exists |-> TRUE, role |-> "doctor"]
                  [] OTHER -> NoDoc]
  /\ reports = [r \in ReportIds |->
                  [exists |-> TRUE,
                   userId |-> "p1",
                   fileKey |-> IF r = "r3" THEN Undefined ELSE r,
                   storageUrl |-> [kind |-> "static", fileKey |-> r]]]
  /\ bucket = {"r1"}
  /\ faults = {}
  /\ appointments = <<>>
  /\ booking = {}
  /\ qrTokens = <<>>
  /\ issued = <<>>
  /\ pending = {}
  /\ resp = NoResp

FaultCalls ==
  {<<<<"r1", "r2", "r3">>, MinExpiresIn, "p1">>,
   <<<<"r2", "r1", "r2">>, MinExpiresIn, "p1">>}

\* a string that decrypts under the key of the process to a text that is not JSON
NotJson ==
  {[tok |-> 0, kind |-> "notJson", at |-> 0, char |-> "",
    str |-> encrypt(<<1, 1, 4>>, SECRET_KEY, RandomIv(1))]}

IssueFault == \E c \in FaultCalls : generateQRToken(c[1], c[2], c[3], 0, "ok")
ValidateFault == \E pres \in Exact \cup NeverIssued \cup NotJson : CallValidate(pres)
ResolveFault == \E pres \in Exact \cup NotJson : Resolve("d1", pres)
FailStep == \E f \in {"qrTokens", "r1", "r2"} : Fail(f)
DeleteFault == DeleteReport("r1")

NextFault ==
  \/ resp = NoResp /\ IssueFault
  \/ resp = NoResp /\ ValidateFault
  \/ resp = NoResp /\ ResolveFault
  \/ resp = NoResp /\ FailStep
  \/ resp = NoResp /\ Recover
  \/ resp = NoResp /\ DeleteFault
  \/ resp = NoResp /\ Evict
  \/ Deliver

SpecFault == InitFault /\ [][NextFault]_vars

(***************************************************************************)
(* Appointments (routes mounted at /v1/appointments).  A booking handler   *)
(* queries the slot, then awaits the patient's record, then writes the     *)
(* appointment: booking holds the handlers between the query and the       *)
(* write.  A status update reads the appointment and then updates it.      *)
(***************************************************************************)
\* the variables the appointment routes leave alone
qrState == <<QR_SECRET_KEY, GEMINI_API_KEY, users, bucket, faults, boots, SECRET_KEY,
             now, reports, qrTokens, issued, pending>>

\* ids of the documents of the doctors collection
Doctors == {"d1"}
AppointmentStatuses == {"pending", "confirmed", "completed", "cancelled"}
ActiveStatuses == {"pending", "confirmed"}

\* body('date').isISO8601() over the dates of the model
IsISO8601(date) == date = "2025-01-06"

\* body('time').matches(/^([0-1]?[0-9]|2[0-3]):[0-5][0-9]$/)
TimeMatches(time) ==
  LET digit(c) == \E k \in 1..10 : Digits[k] = c
      upTo(c, n) == \E k \in 1..(n + 1) : Digits[k] = c
  IN  \E h \in {1, 2} :
        /\ Len(time) = h + 3
        /\ time[h + 1] = ":"
        /\ IF h = 1 THEN digit(time[1])
           ELSE \/ upTo(time[1], 1) /\ digit(time[2])
                \/ time[1] = "2" /\ upTo(time[2], 3)
        /\ upTo(time[h + 2], 5)
        /\ digit(time[h + 3])

ValidBookBody(body) ==
  /\ body.doctorId # ""
  /\ IsISO8601(body.date)
  /\ TimeMatches(body.time)

\* the query of the booking handler: appointments of the slot that are
\* pending or confirmed
SlotTaken(doctorId, date, time) ==
  \E i \in 1..Len(appointments) :
    /\ appointments[i].doctorId = doctorId
    /\ appointments[i].date = date
    /\ appointments[i].time = time
    /\ appointments[i].status \in ActiveStatuses

\* POST /v1/appointments up to the slot query
BookQuery(cred, body) ==
  LET reject(res) ==
        /\ resp' = [op |-> "book", cred |-> cred, body |-> body, res |-> res]
        /\ UNCHANGED booking
  IN  /\ Len(appointments) + Cardinality(booking) < MaxBook
      /\ IF ~Authenticated(cred) THEN reject(authenticateToken(cred))
         ELSE IF ~ValidBookBody(body) THEN reject(ValidationError)
         ELSE IF body.doctorId \notin Doctors THEN reject(NotFound("Doctor not found"))
         ELSE IF SlotTaken(body.doctorId, body.date, body.time)
           THEN reject([status |-> 400, code |-> "VALIDATION_ERROR",
                        message |-> "Time slot is already booked"])
         ELSE /\ booking' = booking \cup
                              {[req |-> Len(appointments) + Cardinality(booking) + 1,
                                patientId |-> cred, doctorId |-> body.doctorId,
                                date |-> body.date, time |-> body.time]}
              /\ UNCHANGED resp
      /\ UNCHANGED <<qrState, appointments>>

\* POST /v1/appointments from appointmentRef.set() to the response
BookWrite(b) ==
  LET appointmentData == [appointmentId |-> Len(appointments) + 1,
                          doctorId |-> b.doctorId, patientId |-> b.patientId,
                          date |-> b.date, time |-> b.time, status |-> "pending"]
  IN  /\ b \in booking
      /\ booking' = booking \ {b}
      /\ appointments' = Append(appointments, appointmentData)
      /\ resp' = [op |-> "book", cred |-> b.patientId,
                  body |-> [doctorId |-> b.doctorId, date |-> b.date, time |-> b.time],
                  res |-> [status |-> 201, success |-> TRUE, data |-> appointmentData]]
      /\ UNCHANGED qrState

\* PUT /v1/appointments/:appointmentId/status
SetStatus(cred, appointmentId, status) ==
  LET known == appointmentId \in 1..Len(appointments)
      allowed == /\ known
                 /\ \/ appointments[appointmentId].patientId = cred
                    \/ appointments[appointmentId].doctorId = cred
  IN  /\ resp' = [op |-> "status", cred |-> cred, id |-> appointmentId, status |-> status,
                  res |-> IF ~Authenticated(cred) THEN authenticateToken(cred)
                          ELSE IF status \notin AppointmentStatuses THEN ValidationError
                          ELSE IF ~known THEN NotFound("Appointment not found")
                          ELSE IF ~allowed THEN Forbidden("Access denied")
                          ELSE [status |-> 200, success |-> TRUE]]
      /\ appointments' = IF Authenticated(cred) /\ status \in AppointmentStatuses /\ allowed
                           THEN [appointments EXCEPT ![appointmentId].status = status]
                           ELSE appointments
      /\ UNCHANGED <<qrState, booking>>

\* DELETE /v1/appointments/:appointmentId: the status set to cancelled
CancelAppointment(cred, appointmentId) ==
  LET known == appointmentId \in 1..Len(appointments)
      allowed == /\ known
                 /\ \/ appointments[appointmentId].patientId = cred
                    \/ appointments[appointmentId].doctorId = cred
  IN  /\ resp' = [op |-> "cancel", cred |-> cred, id |-> appointmentId,
                  res |-> IF ~Authenticated(cred) THEN authenticateToken(cred)
                          ELSE IF ~known THEN NotFound("Appointment not found")
                          ELSE IF ~allowed THEN Forbidden("Access denied")
                          ELSE [status |-> 200, success |-> TRUE]]
      /\ appointments' = IF Authenticated(cred) /\ allowed
                           THEN [appointments EXCEPT ![appointmentId].status = "cancelled"]
                           ELSE appointments
      /\ UNCHANGED <<qrState, booking>>

\* SpecBook: bookings of two patients for the same doctor and day, status
\* updates and cancellations, handlers interleaved at their awaits
BookDate == "2025-01-06"
BookTimes == {<<"0", "9", ":", "0", "0">>, <<"9", ":", "3", "0">>}
BookRequests ==
  {<<cred, [doctorId |-> "d1", date |-> BookDate, time |-> time]>> :
     cred \in {"p1", "p2"}, time \in BookTimes}
  \cup {<<"none", [doctorId |-> "d1", date |-> BookDate, time |-> <<"0", "9", ":", "0", "0">>]>>,
        <<"p1", [doctorId |-> "u1", date |-> BookDate, time |-> <<"0", "9", ":", "0", "0">>]>>,
        <<"p1", [doctorId |-> "", date |-> BookDate, time |-> <<"0", "9", ":", "0", "0">>]>>,
        <<"p1", [doctorId |-> "d1", date |-> "next monday", time |-> <<"0", "9", ":", "0", "0">>]>>,
        <<"p1", [doctorId |-> "d1", date |-> BookDate, time |-> <<"2", "4", ":", "0", "0">>]>>,
        <<"p1", [doctorId |-> "d1", date |-> BookDate, time |-> <<"0", "9", ":", "6", "0">>]>>}

BookStep == \E r \in BookRequests : BookQuery(r[1], r[2])
WriteStep == \E b \in booking : BookWrite(b)
StatusStep ==
  \E cred \in {"p1", "p2", "d1", "bad"}, appointmentId \in 1..(Len(appointments) + 1),
     status \in AppointmentStatuses \cup {"done"} :
    SetStatus(cred, appointmentId, status)
CancelStep ==
  \E cred \in {"p1", "d1", "none"}, appointmentId \in 1..(Len(appointments) + 1) :
    CancelAppointment(cred, appointmentId)

NextBook ==
  \/ resp = NoResp /\ BookStep
  \/ resp = NoResp /\ WriteStep
  \/ resp = NoResp /\ StatusStep
  \/ resp = NoResp /\ CancelStep
  \/ Deliver

SpecBook == InitWith(TRUE) /\ [][NextBook]_vars

(***************************************************************************)
(* Claims.                                                                 *)
(***************************************************************************)
ValidatedIssued ==
  resp.op = "validateQRToken" /\ resp.kind = "issued"

\* C1 (round trip): validateQRToken of the string generateQRToken returned,
\* called while now < expiresAt, answers valid = true with the reportIds that
\* were passed to generateQRToken and the expiresAt it returned, whether the
\* qrTokens record is still there or not.
C1_RoundTrip ==
  (ValidatedIssued /\ now < issued[resp.tok].expiresAtMs)
    => resp.res = [valid |-> TRUE,
                   reportIds |-> issued[resp.tok].reportIds,
                   expiresAt |-> issued[resp.tok].expiresAt]

\* a token validated by decryption, its record gone, some time after it was issued
C1_Witness ==
  /\ ValidatedIssued
  /\ ~Get(qrTokens, issued[resp.tok].qrToken).exists
  /\ issued[resp.tok].issuedAt < now /\ now < issued[resp.tok].expiresAtMs
  /\ Len(issued[resp.tok].reportIds) = 3
  /\ resp.res.valid

\* C2 (expiry): validateQRToken of an issued token answers valid = false at
\* any time now > expiresAt, when the record is present and when it is absent.
C2_Expiry ==
  (ValidatedIssued /\ now > issued[resp.tok].expiresAtMs) => resp.res = [valid |-> FALSE]

\* an expired token rejected on the decrypt path while another token's
\* record is still in the store
C2_Witness ==
  /\ ValidatedIssued
  /\ now > issued[resp.tok].expiresAtMs
  /\ ~Get(qrTokens, issued[resp.tok].qrToken).exists
  /\ \E i \in 1..Len(issued) : Get(qrTokens, issued[i].qrToken).exists
  /\ ~resp.res.valid

C2_WitnessStoreHit ==
  /\ ValidatedIssued
  /\ now > issued[resp.tok].expiresAtMs
  /\ Get(qrTokens, issued[resp.tok].qrToken).exists
  /\ ~resp.res.valid

\* C3 (tamper rejection): validateQRToken of an issued token in which one
\* character of the auth-tag segment or of the ciphertext segment was
\* replaced answers valid = false.
C3_TamperRejected ==
  (resp.op = "validateQRToken" /\ resp.kind \in {"alteredTag", "alteredCiphertext"})
    => resp.res = [valid |-> FALSE]

\* C4 (indistinguishability): validateQRToken answers exactly {valid: false}
\* for a malformed string, for an expired issued token and for an issued
\* token with one character replaced.
C4_Indistinguishable ==
  (/\ resp.op = "validateQRToken"
   /\ \/ resp.kind \in {"malformed", "alteredIv", "alteredTag", "alteredCiphertext"}
      \/ resp.kind = "issued" /\ now > issued[resp.tok].expiresAtMs)
    => resp.res = [valid |-> FALSE]

Resolved == resp.op = "resolve"
DoctorCaller ==
  /\ resp.cred \in Uids
  /\ users[resp.cred].exists
  /\ users[resp.cred].role = "doctor"

\* C5 as stated (capability access): whoever presents to the resolve route a
\* token that validateQRToken accepts obtains the token's reports; no check
\* on the holder's identity or role denies it.
C5_AnyHolder ==
  (Resolved /\ resp.accepted) => resp.res.status = 200

\* C5 amended: an authenticated caller with role doctor who presents a token
\* that validateQRToken accepts obtains 200 with the views of the token's
\* reports that exist, in the token's order, whoever issued the token.
C5_DoctorHolder ==
  (Resolved /\ resp.accepted /\ DoctorCaller)
    => /\ resp.res.status = 200
       /\ [j \in 1..Len(resp.res.data.reports) |-> resp.res.data.reports[j].reportId]
            = SelectSeq(issued[resp.tok].reportIds, LAMBDA r : reports[r].exists)
       /\ resp.res.data.expiresAt = issued[resp.tok].expiresAt

\* a doctor who is not the issuer obtains the reports of a patient's token
C5_Witness ==
  /\ Resolved /\ resp.accepted /\ DoctorCaller
  /\ issued[resp.tok].userId # resp.cred
  /\ resp.res.status = 200
  /\ Len(resp.res.data.reports) = Len(issued[resp.tok].reportIds)

\* C6 as stated (doctor-only resolve): the resolve route returns report data
\* only to an authenticated caller with a users record of role doctor, and
\* every other caller receives 403 FORBIDDEN before the token is validated.
C6_OthersForbidden ==
  Resolved =>
    IF DoctorCaller THEN TRUE
    ELSE resp.res.status = 403 /\ resp.res.code = "FORBIDDEN" /\ ~resp.validated

\* C6 amended: report data goes only to an authenticated doctor; a caller
\* without valid credentials receives 401 UNAUTHORIZED, an authenticated
\* caller whose users record is missing or has another role receives 403
\* FORBIDDEN, both before the token is validated and whatever its validity.
C6_DoctorOnly ==
  Resolved =>
    IF DoctorCaller THEN resp.validated
    ELSE /\ ~resp.validated
         /\ resp.fetched = <<>>
         /\ IF resp.cred \in Uids
              THEN resp.res = Forbidden("Doctor access required")
              ELSE resp.res.status = 401 /\ resp.res.code = "UNAUTHORIZED"

\* the patient who issued a token presents it while it is accepted
C6_Witness ==
  /\ Resolved /\ resp.accepted
  /\ resp.cred = issued[resp.tok].userId
  /\ resp.res.status = 403 /\ ~resp.validated

\* C7 (ownership precondition): every token the generate route issued, and
\* so every qrTokens record, lists only reports that existed and belonged to
\* the record's userId when generateQRToken was called.
C7_OwnedAtIssuance ==
  /\ \A i \in 1..Len(issued) : issued[i].owned
  /\ \A t \in DOMAIN qrTokens :
       \E i \in 1..Len(issued) :
         /\ issued[i].qrToken = t
         /\ qrTokens[t].reportIds = issued[i].reportIds
         /\ qrTokens[t].userId = issued[i].userId

\* a token lists a report that has since been deleted, and a later request
\* of the same patient naming that report is refused
C7_Witness ==
  /\ \E i \in 1..Len(issued) :
       \E j \in 1..Len(issued[i].reportIds) : ~reports[issued[i].reportIds[j]].exists
  /\ resp.op = "generate" /\ resp.cred = "p1"
  /\ resp.res.status = 403

\* C8 (partial resolution): a resolve of an accepted token that lists n
\* report ids, k of which no longer exist, succeeds with exactly n - k views.
C8_PartialResolution ==
  (Resolved /\ resp.validated /\ resp.accepted)
    => /\ resp.res.status = 200
       /\ Len(resp.res.data.reports)
            = Len(issued[resp.tok].reportIds)
                - Cardinality({j \in 1..Len(issued[resp.tok].reportIds) :
                                 ~reports[issued[resp.tok].reportIds[j]].exists})

\* three ids, the one in the middle deleted, two views
C8_Witness ==
  /\ Resolved /\ resp.validated /\ resp.accepted
  /\ issued[resp.tok].reportIds = <<"r2", "r1", "r2">>
  /\ ~reports["r1"].exists /\ reports["r2"].exists
  /\ resp.res.status = 200
  /\ Len(resp.res.data.reports) = 2

\* C9 (summary attach ordering): a resolve of an accepted token answers
\* aiSummary null as long as no update attached a summary to its record, and
\* exactly the attached summary afterwards.
C9_SummaryAttach ==
  (Resolved /\ resp.validated /\ resp.accepted)
    => resp.res.data.aiSummary =
         IF issued[resp.tok].attached = Undefined THEN Null
         ELSE issued[resp.tok].attached

\* a resolve after the attach update, while another token still awaits its summary
C9_Witness ==
  /\ Resolved /\ resp.validated /\ resp.accepted
  /\ issued[resp.tok].attached = ModelSummary
  /\ resp.res.data.aiSummary = ModelSummary
  /\ pending # {}

\* a resolve between generateQRToken and the attach update
C9_WitnessBefore ==
  /\ Resolved /\ resp.validated /\ resp.accepted
  /\ resp.tok \in pending
  /\ GEMINI_API_KEY
  /\ resp.res.data.aiSummary = Null

\* C10 (resolve of a rejected token): when the resolve handler reaches
\* validateQRToken and the token is rejected, no report is read and the
\* answer is 404 NOT_FOUND 'Invalid or expired QR token', whatever the reason.
C10_RejectedIsNotFound ==
  (resp.op = "resolve" /\ resp.validated /\ ~resp.accepted)
    => /\ resp.res = NotFound("Invalid or expired QR token")
       /\ resp.fetched = <<>>

\* a doctor presents, after its expiry, a token whose tag was cut short
C10_Witness ==
  /\ resp.op = "resolve" /\ resp.validated /\ ~resp.accepted
  /\ resp.kind = "alteredTag" /\ resp.char = "g"
  /\ now > issued[resp.tok].expiresAtMs
  /\ resp.res.status = 404

C10_WitnessMalformed ==
  /\ resp.op = "resolve" /\ resp.validated /\ ~resp.accepted
  /\ resp.kind = "malformed" /\ resp.tok = 0

C10_WitnessExpired ==
  /\ resp.op = "resolve" /\ resp.validated /\ ~resp.accepted
  /\ resp.kind = "issued" /\ now > issued[resp.tok].expiresAtMs

C13_WriteFailurePropagates ==
  /\ (resp.op = "generate" /\ resp.failure = "write")
       => /\ resp.res = ServerError("Failed to generate QR token")
          /\ resp.tok = 0
  /\ \A i \in 1..Len(issued) : issued[i].written
  /\ (resp.op = "generate" /\ resp.res.status = 200)
       => /\ resp.tok \in 1..Len(issued)
          /\ issued[resp.tok].written
          /\ resp.res.data.qrToken = issued[resp.tok].qrToken

\* the store refused the write for a request whose checks had all passed
C13_Witness ==
  /\ resp.op = "generate" /\ resp.failure = "write"
  /\ resp.lookups = <<"r1", "r2">>
  /\ resp.res.status = 500
  /\ issued = <<>> /\ qrTokens = <<>>

\* C14 (summary failures): when generateSummaryForReports or the update of
\* the record throws, the request is still answered 200 with the qrToken
\* and expiresAt of the token issued, and no error.
C14_SummaryFailureSwallowed ==
  (resp.op = "generate" /\ resp.failure \in {"summary", "update"})
    => /\ resp.res.status = 200 /\ resp.res.success
       /\ resp.res.data.qrToken = issued[resp.tok].qrToken
       /\ resp.res.data.expiresAt = issued[resp.tok].expiresAt
       /\ Get(qrTokens, issued[resp.tok].qrToken).aiSummary = Undefined

\* the update threw after the summary was generated
C14_Witness ==
  /\ resp.op = "generate" /\ resp.failure = "update"
  /\ resp.res.status = 200
  /\ resp.res.data.aiSummary = ModelSummary

\* generateSummaryForReports threw: no API key
C14_WitnessSummary ==
  /\ resp.op = "generate" /\ resp.failure = "summary"
  /\ resp.res.status = 200
  /\ resp.res.data.aiSummary = Null

IssuedBeforeRestart ==
  ValidatedIssued /\ QR_SECRET_KEY = <<>> /\ issued[resp.tok].boot < boots

\* C12 as stated (key loss on restart): with no key configured, every token
\* issued before a restart of the process is rejected by validateQRToken
\* after the restart.
C12_RejectedAfterRestart ==
  IssuedBeforeRestart => resp.res = [valid |-> FALSE]

\* C12 amended: with no key configured, a token issued before a restart is
\* rejected after the restart once its qrTokens record is absent; while the
\* record is present it is accepted until it expires.
C12_RejectedOnceRecordGone ==
  IssuedBeforeRestart
    => (resp.res.valid <=> /\ Get(qrTokens, issued[resp.tok].qrToken).exists
                           /\ now <= issued[resp.tok].expiresAtMs)

\* restarted, record evicted, not yet expired: rejected
C12_Witness ==
  /\ IssuedBeforeRestart
  /\ ~Get(qrTokens, issued[resp.tok].qrToken).exists
  /\ now < issued[resp.tok].expiresAtMs
  /\ ~resp.res.valid

\* C15 (store-hit path): when a record exists under the presented string,
\* validateQRToken answers from the record alone: valid = false when its
\* expiresAt has passed, else valid = true with its reportIds and expiresAt,
\* whatever the key of the process is.
C15_StoreHit ==
  (resp.op = "validateQRToken" /\ Get(qrTokens, resp.str).exists)
    => resp.res = IF DateParse(qrTokens[resp.str].expiresAt) < now
                    THEN [valid |-> FALSE]
                    ELSE [valid |-> TRUE,
                          reportIds |-> qrTokens[resp.str].reportIds,
                          expiresAt |-> qrTokens[resp.str].expiresAt]

\* the record answers for a token that the key of the process cannot decrypt
C15_Witness ==
  /\ ValidatedIssued
  /\ Get(qrTokens, resp.str).exists
  /\ issued[resp.tok].key # SECRET_KEY
  /\ ~decrypt(resp.str, SECRET_KEY).ok
  /\ resp.res.valid

\* C16 (decrypt-fallback path): when no record exists under the presented
\* string, validateQRToken answers valid = true with the payload's reportIds
\* and expiresAt exactly when decryption under the key of the process and
\* the parse succeed and the payload's expiresAt has not passed, that is for
\* an issued token exactly when it was encrypted under this key and is not
\* expired; otherwise valid = false.
C16_DecryptFallback ==
  (resp.op = "validateQRToken" /\ ~Get(qrTokens, resp.str).exists)
    => LET decrypted == decrypt(resp.str, SECRET_KEY)
           parsed == JSONParse(decrypted.text)
           accepted == /\ decrypted.ok
                       /\ parsed.ok
                       /\ ~(DateParse(parsed.value.expiresAt) < now)
       IN  /\ resp.res = IF accepted
                           THEN [valid |-> TRUE,
                                 reportIds |-> parsed.value.reportIds,
                                 expiresAt |-> parsed.value.expiresAt]
                           ELSE [valid |-> FALSE]
           /\ resp.kind = "issued"
                => (resp.res.valid <=> /\ issued[resp.tok].key = SECRET_KEY
                                       /\ now <= issued[resp.tok].expiresAtMs)
           /\ resp.kind # "issued" => ~resp.res.valid

\* the process restarted with the configured key and the record is gone:
\* the token is accepted by decryption
C16_Witness ==
  /\ ValidatedIssued
  /\ ~Get(qrTokens, resp.str).exists
  /\ issued[resp.tok].boot < boots
  /\ resp.res.valid
  /\ resp.res.reportIds = issued[resp.tok].reportIds

\* C17 (strict expiry): at the instant now = expiresAt validateQRToken
\* already answers valid = false, on both paths.
C17_StrictExpiry ==
  (ValidatedIssued /\ now = issued[resp.tok].expiresAtMs) => resp.res = [valid |-> FALSE]

\* C18 (expired is absorbing): an issued token past its expiresAt is rejected
\* by validateQRToken and by getReportsByQRToken in every state, and no step
\* (issue, summary attach, eviction, restart) turns the clock back or moves
\* its expiresAt, so a token once rejected as expired is rejected ever after.
C18_ExpiredAbsorbing ==
  /\ [](\A i \in 1..Len(issued) :
          now > issued[i].expiresAtMs
            => /\ ~validateQRToken(issued[i].qrToken).valid
               /\ getReportsByQRToken(issued[i].qrToken).error = TokenInvalidError)
  /\ [][/\ now' >= now
        /\ \A i \in 1..Len(issued) :
             /\ issued'[i].qrToken = issued[i].qrToken
             /\ issued'[i].expiresAtMs = issued[i].expiresAtMs
             /\ Get(qrTokens', issued[i].qrToken).exists
                  => qrTokens'[issued[i].qrToken].expiresAt = issued[i].expiresAt]_vars

\* an expired token rejected after its summary was attached, its record
\* evicted and the process restarted
C18_Witness ==
  /\ ValidatedIssued
  /\ now > issued[resp.tok].expiresAtMs
  /\ issued[resp.tok].attached = ModelSummary
  /\ ~Get(qrTokens, resp.str).exists
  /\ issued[resp.tok].boot < boots
  /\ ~resp.res.valid

\* C19 (read-only): a validate or resolve request leaves the qrTokens and the
\* reports collection as they were, also when it finds the record expired.
C19_ReadOnly ==
  [][(resp = NoResp /\ resp'.op \in {"validateQRToken", "validate", "resolve"})
       => (qrTokens' = qrTokens /\ reports' = reports)]_vars

\* a validate request found the record expired, and the record is still there
C19_Witness ==
  /\ resp.op = "validate" /\ resp.kind = "issued"
  /\ resp.res.status = 200 /\ ~resp.res.data.valid
  /\ now > issued[resp.tok].expiresAtMs
  /\ Get(qrTokens, issued[resp.tok].qrToken).exists
  /\ DateParse(qrTokens[issued[resp.tok].qrToken].expiresAt) < now

\* C20 (token immutability): no step changes reportIds, userId, expiresAt or
\* createdAt of a qrTokens record; a step that changes a record changes only
\* aiSummary and summaryGeneratedAt, and only of a record that had no summary.
C20_Immutable ==
  [][\A t \in DOMAIN qrTokens :
       (qrTokens[t].exists /\ qrTokens'[t].exists /\ qrTokens'[t] # qrTokens[t])
         => /\ qrTokens[t].aiSummary = Undefined
            /\ qrTokens'[t] = [qrTokens[t] EXCEPT
                                 !.aiSummary = qrTokens'[t].aiSummary,
                                 !.summaryGeneratedAt = qrTokens'[t].summaryGeneratedAt]]_vars

\* a record with its summary attached, later than it was issued, still
\* carrying what was issued
C20_Witness ==
  \E i \in 1..Len(issued) :
    /\ issued[i].attached = ModelSummary
    /\ now > issued[i].issuedAt
    /\ qrTokens[issued[i].qrToken].aiSummary = ModelSummary
    /\ qrTokens[issued[i].qrToken].reportIds = issued[i].reportIds
    /\ qrTokens[issued[i].qrToken].userId = issued[i].userId
    /\ qrTokens[issued[i].qrToken].expiresAt = issued[i].expiresAt
    /\ qrTokens[issued[i].qrToken].createdAt = ToISOString(issued[i].issuedAt)

\* C21 (mirror consistency): for every issued token the qrTokens record
\* stored under the wire token has the reportIds, userId, expiresAt and
\* createdAt of the plaintext encrypted inside the wire token.
C21_MirrorConsistency ==
  \A i \in 1..Len(issued) :
    Get(qrTokens, issued[i].qrToken).exists
      => LET tokenDoc == qrTokens[issued[i].qrToken]
             tokenData == JSONParse(decrypt(issued[i].qrToken, issued[i].key).text).value
         IN  /\ tokenDoc.reportIds = tokenData.reportIds
             /\ tokenDoc.userId = tokenData.userId
             /\ tokenDoc.expiresAt = tokenData.expiresAt
             /\ tokenDoc.createdAt = tokenData.createdAt

\* what the decrypt-fallback path of validateQRToken answers for a string
FallbackAnswer(qrToken) ==
  LET decrypted == decrypt(qrToken, SECRET_KEY)
      parsed == JSONParse(decrypted.text)
  IN  IF decrypted.ok /\ parsed.ok /\ ~(DateParse(parsed.value.expiresAt) \in 0..(now - 1))
        THEN [valid |-> TRUE, reportIds |-> parsed.value.reportIds,
              expiresAt |-> parsed.value.expiresAt]
        ELSE [valid |-> FALSE]

\* C22 (path equivalence): for every issued token, at every time, while the
\* key that issued it is in use, validateQRToken answers the same (valid,
\* reportIds, expiresAt) when the record is present as the decrypt-fallback
\* path answers for the token, and every answer given is that answer.
C22_PathEquivalence ==
  /\ \A i \in 1..Len(issued) :
       issued[i].key = SECRET_KEY
         => validateQRToken(issued[i].qrToken) = FallbackAnswer(issued[i].qrToken)
  /\ (ValidatedIssued /\ issued[resp.tok].key = SECRET_KEY)
       => resp.res = FallbackAnswer(resp.str)

\* answered from the record at the last instant of the token's life
C22_Witness ==
  /\ ValidatedIssued
  /\ Get(qrTokens, resp.str).exists
  /\ now = issued[resp.tok].expiresAtMs
  /\ resp.res.valid

\* answered by decryption at the same instant
C22_WitnessEvicted ==
  /\ ValidatedIssued
  /\ ~Get(qrTokens, resp.str).exists
  /\ now = issued[resp.tok].expiresAtMs
  /\ resp.res.valid

\* a doctor's resolve request for an issued token that validateQRToken accepts
ResolvedAccepted ==
  Resolved /\ DoctorCaller /\ resp.kind = "issued" /\ resp.accepted

\* C23 (per-item fault isolation): while getReportsByQRToken expands a valid
\* token, a failed fetch of one report or a failed generation of its download
\* URL does not abort the request: it answers with the views of all reports
\* whose fetch did not fail.
C23_FaultIsolation ==
  ResolvedAccepted
    => /\ resp.res.status = 200
       /\ resp.res.data.reports =
            FetchedViews(SelectSeq(issued[resp.tok].reportIds, LAMBDA r : r \notin faults))

\* C24 (grant failure fallback): in a successful resolve every existing
\* report of the token is included; its storageUrl is the URL signed for its
\* fileKey with a lifetime of 3600 seconds when the signing succeeds, and the
\* stored static storageUrl when the signing fails or there is no fileKey.
C24_GrantFallback ==
  (ResolvedAccepted /\ resp.res.status = 200)
    => LET views == resp.res.data.reports
           reportIds == issued[resp.tok].reportIds
       IN  /\ \A i \in 1..Len(reportIds) :
                reports[reportIds[i]].exists
                  => \E k \in 1..Len(views) : views[k].reportId = reportIds[i]
           /\ \A k \in 1..Len(views) :
                LET reportData == reports[views[k].reportId]
                IN  views[k].storageUrl =
                      IF reportData.fileKey # Undefined /\ reportData.fileKey \in bucket
                        THEN [kind |-> "signed", fileKey |-> reportData.fileKey,
                              expiresIn |-> 3600]
                        ELSE reportData.storageUrl

\* one URL signed, one file missing from the bucket, one report without a
\* fileKey; the token itself lives 60 seconds
C24_Witness ==
  /\ ResolvedAccepted /\ resp.res.status = 200
  /\ issued[resp.tok].reportIds = <<"r1", "r2", "r3">>
  /\ issued[resp.tok].expiresAtMs - issued[resp.tok].issuedAt = MinExpiresIn * 1000
  /\ Len(resp.res.data.reports) = 3
  /\ resp.res.data.reports[1].storageUrl.kind = "signed"
  /\ reports["r2"].fileKey \notin bucket
  /\ resp.res.data.reports[2].storageUrl = reports["r2"].storageUrl
  /\ reports["r3"].fileKey = Undefined
  /\ resp.res.data.reports[3].storageUrl = reports["r3"].storageUrl

\* the conditions under which validateQRToken meets an exception
ValidationThrows(qrToken) ==
  \/ "qrTokens" \in faults
  \/ /\ ~Get(qrTokens, qrToken).exists
     /\ \/ Len(Split(qrToken)) # 3
        \/ ~decrypt(qrToken, SECRET_KEY).ok
        \/ ~JSONParse(decrypt(qrToken, SECRET_KEY).text).ok

\* C25 (validateQRToken never raises): a string without exactly three parts,
\* a failed decryption, a plaintext that is not JSON and a failed read of
\* the qrTokens store each make validateQRToken answer {valid: false}, and
\* the resolve route answers 404 for them, never 500.
C25_NeverRaises ==
  /\ (resp.op = "validateQRToken" /\ ValidationThrows(resp.str))
       => resp.res = [valid |-> FALSE]
  /\ \A pres \in Exact \cup NeverIssued \cup NotJson :
       ValidationThrows(pres.str)
         => /\ validateQRToken(pres.str) = [valid |-> FALSE]
            /\ getReportsByQRToken(pres.str).error = TokenInvalidError
  /\ (Resolved /\ DoctorCaller /\ ~resp.accepted)
       => resp.res = NotFound(TokenInvalidError)

\* the read of the record of a live token failed
C25_Witness ==
  /\ ValidatedIssued
  /\ "qrTokens" \in faults
  /\ Get(qrTokens, resp.str).exists
  /\ now < issued[resp.tok].expiresAtMs
  /\ resp.res = [valid |-> FALSE]

\* the plaintext is not JSON
C25_WitnessNotJson ==
  /\ resp.op = "validateQRToken" /\ resp.kind = "notJson"
  /\ faults = {}
  /\ decrypt(resp.str, SECRET_KEY).ok
  /\ resp.res = [valid |-> FALSE]

\* two parts instead of three
C25_WitnessParts ==
  /\ resp.op = "validateQRToken" /\ resp.kind = "malformed"
  /\ faults = {}
  /\ Len(Split(resp.str)) = 2
  /\ resp.res = [valid |-> FALSE]

\* C27 (order and multiplicity): the reports of a successful resolve are, in
\* the order of the token's reportIds, one view per occurrence of an id
\* whose report exists, and no others.
C27_OrderAndMultiplicity ==
  (Resolved /\ resp.validated /\ resp.accepted /\ resp.res.status = 200)
    => [k \in 1..Len(resp.res.data.reports) |-> resp.res.data.reports[k].reportId]
         = SelectSeq(issued[resp.tok].reportIds, LAMBDA r : reports[r].exists)

\* an id listed twice is resolved twice
C27_Witness ==
  /\ Resolved /\ resp.validated /\ resp.accepted /\ resp.res.status = 200
  /\ issued[resp.tok].reportIds = <<"r2", "r1", "r2">>
  /\ reports["r1"].exists /\ reports["r2"].exists
  /\ Len(resp.res.data.reports) = 3
  /\ resp.res.data.reports[1].reportId = "r2"
  /\ resp.res.data.reports[2].reportId = "r1"
  /\ resp.res.data.reports[3].reportId = "r2"

\* C26 (independent concurrent issues): any two issue operations, also with
\* the same reportIds, userId and ttl in the same millisecond and with their
\* handlers interleaved, yield distinct wire tokens; each record present in
\* qrTokens holds what its own issue wrote and its own summary, and each
\* token validates to its own reportIds and expiresAt.
C26_IndependentIssues ==
  /\ \A i, j \in 1..Len(issued) : i # j => issued[i].qrToken # issued[j].qrToken
  /\ \A i \in 1..Len(issued) :
       Get(qrTokens, issued[i].qrToken).exists
         => /\ qrTokens[issued[i].qrToken].qrToken = issued[i].qrToken
            /\ qrTokens[issued[i].qrToken].reportIds = issued[i].reportIds
            /\ qrTokens[issued[i].qrToken].userId = issued[i].userId
            /\ qrTokens[issued[i].qrToken].expiresAt = issued[i].expiresAt
            /\ qrTokens[issued[i].qrToken].aiSummary = issued[i].attached
  /\ (resp.op = "validate" /\ resp.kind = "issued" /\ resp.res.status = 200
        /\ resp.res.data.valid)
       => /\ resp.res.data.reportIds = issued[resp.tok].reportIds
          /\ resp.res.data.expiresAt = issued[resp.tok].expiresAt

\* two handlers for the same request in flight at once, the summary of the
\* second token attached before that of the first, and the first validated
C26_Witness ==
  /\ Len(issued) >= 2
  /\ issued[1].reportIds = issued[2].reportIds
  /\ issued[1].userId = issued[2].userId
  /\ issued[1].expiresAt = issued[2].expiresAt
  /\ issued[1].issuedAt = issued[2].issuedAt
  /\ 1 \in pending /\ 2 \notin pending
  /\ issued[2].attached = ModelSummary /\ issued[1].attached = Undefined
  /\ resp.op = "validate" /\ resp.tok = 1 /\ resp.kind = "issued"
  /\ resp.res.status = 200 /\ resp.res.data.valid

\* a report id the caller may not share: no such report, or another owner
NotOwned(reportId, userId) ==
  ~Get(reports, reportId).exists \/ reports[reportId].userId # userId

\* C28 (all-or-nothing ownership rejection): a generate request of an
\* authenticated caller with a well-formed body in which some report id
\* does not exist or belongs to another user is answered 403 FORBIDDEN,
\* mints no token and leaves qrTokens unchanged, also when every other id is
\* owned by the caller; every token minted lists only reports the caller owns.
C28_AllOrNothing ==
  [][/\ (/\ resp = NoResp /\ resp'.op = "generate" /\ resp'.tok = 0
         /\ resp'.cred \in Uids
         /\ ValidGenerateBody(resp'.body)
         /\ \E k \in 1..Len(resp'.body.reportIds.items) :
              NotOwned(resp'.body.reportIds.items[k].value, resp'.cred))
        => /\ resp'.res.status = 403 /\ resp'.res.code = "FORBIDDEN"
           /\ qrTokens' = qrTokens
           /\ issued' = issued
           /\ pending' = pending
     /\ Len(issued') > Len(issued)
          => \A k \in 1..Len(issued'[Len(issued')].reportIds) :
               ~NotOwned(issued'[Len(issued')].reportIds[k], issued'[Len(issued')].userId)]_vars

\* the second id belongs to another user, the first to the caller
C28_Witness ==
  /\ resp.op = "generate" /\ resp.tok = 0 /\ resp.cred = "p1"
  /\ resp.body.reportIds = JIds(<<"r1", "r3">>)
  /\ ~NotOwned("r1", "p1") /\ NotOwned("r3", "p1")
  /\ resp.res.status = 403
  /\ resp.lookups = <<"r1", "r3">>
  /\ ~resp.encrypted

\* a report that was deleted
C28_WitnessMissing ==
  /\ resp.op = "generate" /\ resp.tok = 0 /\ resp.cred = "p1"
  /\ \E k \in 1..Len(resp.body.reportIds.items) :
       ~reports[resp.body.reportIds.items[k].value].exists
  /\ resp.res.status = 403

\* the generation of the summary for the ids failed: no API key, or the
\* model call failed for reports that were read
SummaryFailed(reportIds, outcome) ==
  \/ ~GEMINI_API_KEY
  \/ /\ outcome = "modelError"
     /\ \E k \in 1..Len(reportIds) : Get(reports, reportIds[k]).exists

\* C29 (no summary on generation failure): when the generation of the AI
\* summary fails (model error or missing API key) nothing is attached to the
\* record of the token, and a resolve of the token answers aiSummary null.
C29_NoSummaryOnFailure ==
  (/\ resp.op = "generate" /\ resp.tok >= 1
   /\ SummaryFailed(issued[resp.tok].reportIds, resp.outcome))
    => /\ qrTokens[issued[resp.tok].qrToken].aiSummary = Undefined
       /\ getReportsByQRToken(issued[resp.tok].qrToken).aiSummary = Null

\* C30 (slot exclusivity): after any sequence or interleaving of booking
\* requests, status updates and cancellations there is at most one
\* appointment with status pending or confirmed for each doctorId, date
\* and time.
C30_SlotExclusive ==
  \A i, j \in 1..Len(appointments) :
    (/\ i # j
     /\ appointments[i].status \in ActiveStatuses
     /\ appointments[j].status \in ActiveStatuses)
      => <<appointments[i].doctorId, appointments[i].date, appointments[i].time>>
           # <<appointments[j].doctorId, appointments[j].date, appointments[j].time>>

====
